---------------------------- MODULE Spec2Model ----------------------------
(***************************************************************************)
(* Web2Module: the request path of the summarizer service.                 *)
(*                                                                         *)
(*   api_summarize_url (app.py)  ->  process_url_and_summarize (app.py)    *)
(*       ->  WebCrawler.crawl (crawler.py)  ->  crawl engine (arun)        *)
(*       ->  ContentSummarizer (summarizer.py)  ->  hosted model           *)
(*                                                                         *)
(* Python strings on which the code computes (startswith, strip, slicing,  *)
(* "in", len, json.loads) are sequences of one-character strings.  The     *)
(* await points of the coroutines (the crawl engine's arun, the model's    *)
(* generate_content_async) are the boundaries between the actions.         *)
(***************************************************************************)
EXTENDS Integers, Sequences, FiniteSets, TLC

VARIABLES
    pc,                         \* "idle", "arun", "generate", "done"
    caller,                     \* "none", "api" (the endpoint), "direct" (the function itself)
    GEMINI_API_KEY,             \* summarizer.py module state: None or the key
    genai_ok,                   \* environment: genai.configure/GenerativeModel do not raise
    request_url,                \* URLRequest.url of the request being served
    target_url,                 \* argument of process_url_and_summarize
    engine,                     \* what AsyncWebCrawler.arun did: returned a list or raised
    markdown_text,              \* app.py local
    page_url,                   \* app.py local
    summarizer,                 \* the ContentSummarizer of this call, or None
    markdown_text_for_summary,  \* app.py local: what is passed to generate_json_summary
    model_reply,                \* what generate_content_async did: response text or raised
    generated,                  \* how generate_json_summary ended: return value or raise
    outcome,                    \* how process_url_and_summarize ended: return value or raise
    http,                       \* the endpoint's response
    process_calls,              \* invocations of process_url_and_summarize in this request
    crawl_calls,                \* invocations of WebCrawler.crawl in this call
    arun_calls,                 \* invocations of the crawl engine in this call
    summarizer_inits,           \* ContentSummarizer() constructions in this call
    summary_calls,              \* invocations of generate_json_summary in this call
    model_calls                 \* invocations of generate_content_async in this call

vars == <<pc, caller, GEMINI_API_KEY, genai_ok, request_url, target_url, engine,
          markdown_text, page_url, summarizer, markdown_text_for_summary,
          model_reply, generated, outcome, http, process_calls, crawl_calls,
          arun_calls, summarizer_inits, summary_calls, model_calls>>

--------------------------------------------------------------------------
(* Bounds of the model *)

\* longest short page text
MaxTextLen == 2

\* how far past the truncation limit the long page texts go
MaxOver == 1

\* deepest nesting of the JSON documents the model replies with
MaxNest == 1

--------------------------------------------------------------------------
(* Python values *)

None == [t |-> "None", kind |-> "none"]

IsNone(v) == v.t = "None"

\* the backtick character (a string literal cannot hold it)
BT == "U+0060"

\* a str value
Str(chars) == [t |-> "str", s |-> chars]

\* str.isspace for one character: the whitespace str.strip() removes
IsSpace(c) == c \in {" ", "\n", "\t", "\r"}

RECURSIVE lstrip(_)
lstrip(s) == IF s # <<>> /\ IsSpace(Head(s)) THEN lstrip(Tail(s)) ELSE s

RECURSIVE rstrip(_)
rstrip(s) == IF s # <<>> /\ IsSpace(s[Len(s)]) THEN rstrip(SubSeq(s, 1, Len(s) - 1)) ELSE s

\* str.strip()
strip(s) == rstrip(lstrip(s))

\* str.startswith(prefix)
startswith(s, prefix) == Len(s) >= Len(prefix) /\ SubSeq(s, 1, Len(prefix)) = prefix

\* "sub in s" for str
Contains(sub, s) == \E i \in 1..(Len(s) - Len(sub) + 1) : SubSeq(s, i, i + Len(sub) - 1) = sub

\* s[a:] and s[a:-b] for a, b >= 0 (Python clamps the indices)
SliceFrom(s, a) == IF a >= Len(s) THEN <<>> ELSE SubSeq(s, a + 1, Len(s))

SliceBetween(s, a, b) == IF Len(s) - b <= a THEN <<>> ELSE SubSeq(s, a + 1, Len(s) - b)

\* s[:n] for n >= 0
SlicePrefix(s, n) == IF n >= Len(s) THEN s ELSE SubSeq(s, 1, n)

\* the truth value of "not s or not s.strip()" for a str (None never reaches it)
IsBlank(s) == s = <<>> \/ strip(s) = <<>>

--------------------------------------------------------------------------
(* json.loads on the JSON subset the replies are drawn from: null, true,   *)
(* false, non-negative integers, strings without escapes, arrays, objects. *)
(* A parse step returns [ok, val, next]; ok = FALSE is JSONDecodeError.    *)

JsonWs(c) == c \in {" ", "\n", "\t", "\r"}

Digits == <<"0", "1", "2", "3", "4", "5", "6", "7", "8", "9">>

IsDigit(c) == \E d \in 1..10 : Digits[d] = c

DigitValue(c) == (CHOOSE d \in 1..10 : Digits[d] = c) - 1

Fail == [ok |-> FALSE]

Ok(v, n) == [ok |-> TRUE, val |-> v, next |-> n]

JNull == None

JBool(b) == [t |-> "bool", b |-> b]

JInt(n) == [t |-> "int", n |-> n]

JStr(chars) == Str(chars)

JList(items) == [t |-> "list", items |-> items]

\* a dict as the sequence of its (key, value) pairs in insertion order
JDict(members) == [t |-> "dict", members |-> members]

RECURSIVE SkipWs(_, _)
SkipWs(s, i) == IF i <= Len(s) /\ JsonWs(s[i]) THEN SkipWs(s, i + 1) ELSE i

RECURSIVE ScanDigits(_, _)
ScanDigits(s, i) == IF i <= Len(s) /\ IsDigit(s[i]) THEN ScanDigits(s, i + 1) ELSE i

RECURSIVE DigitsToInt(_)
DigitsToInt(ds) ==
    IF ds = <<>> THEN 0
    ELSE 10 * DigitsToInt(SubSeq(ds, 1, Len(ds) - 1)) + DigitValue(ds[Len(ds)])

\* the index of the closing quote of a string whose first character is at i, or 0
RECURSIVE ScanString(_, _)
ScanString(s, i) ==
    IF i > Len(s) THEN 0
    ELSE IF s[i] = "\"" THEN i
    ELSE IF s[i] \in {"\\", "\n", "\t", "\r"} THEN 0
    ELSE ScanString(s, i + 1)

\* dict[key] = value: a repeated key keeps its position and takes the new value
RECURSIVE DictPut(_, _, _)
DictPut(members, key, value) ==
    IF members = <<>> THEN <<[k |-> key, v |-> value]>>
    ELSE IF Head(members).k = key THEN <<[k |-> key, v |-> value]>> \o Tail(members)
    ELSE <<Head(members)>> \o DictPut(Tail(members), key, value)

ParseString(s, i) ==
    LET close == ScanString(s, i + 1)
    IN  IF close = 0 THEN Fail ELSE Ok(JStr(SubSeq(s, i + 1, close - 1)), close + 1)

ParseNumber(s, i) ==
    LET end == ScanDigits(s, i)
    IN  IF s[i] = "0" /\ end > i + 1
        THEN Ok(JInt(0), i + 1)
        ELSE Ok(JInt(DigitsToInt(SubSeq(s, i, end - 1))), end)

ParseWord(s, i, word, value) ==
    IF i + Len(word) - 1 <= Len(s) /\ SubSeq(s, i, i + Len(word) - 1) = word
    THEN Ok(value, i + Len(word))
    ELSE Fail

RECURSIVE ParseValue(_, _)
RECURSIVE ParseItems(_, _, _)
RECURSIVE ParseMembers(_, _, _)

\* the elements of an array from index i (just past "[" or ","), acc those read so far
ParseItems(s, i, acc) ==
    LET r == ParseValue(s, SkipWs(s, i))
    IN  IF ~r.ok THEN Fail
        ELSE LET k == SkipWs(s, r.next)
             IN  IF k > Len(s) THEN Fail
                 ELSE IF s[k] = "," THEN ParseItems(s, k + 1, Append(acc, r.val))
                 ELSE IF s[k] = "]" THEN Ok(JList(Append(acc, r.val)), k + 1)
                 ELSE Fail

\* the members of an object from index i (at the opening quote of a key)
ParseMembers(s, i, acc) ==
    IF i > Len(s) \/ s[i] # "\"" THEN Fail
    ELSE LET key == ParseString(s, i)
         IN  IF ~key.ok THEN Fail
             ELSE LET c == SkipWs(s, key.next)
                  IN  IF c > Len(s) \/ s[c] # ":" THEN Fail
                      ELSE LET r == ParseValue(s, SkipWs(s, c + 1))
                           IN  IF ~r.ok THEN Fail
                               ELSE LET k == SkipWs(s, r.next)
                                        put == DictPut(acc, key.val.s, r.val)
                                    IN  IF k > Len(s) THEN Fail
                                        ELSE IF s[k] = "," THEN ParseMembers(s, SkipWs(s, k + 1), put)
                                        ELSE IF s[k] = "}" THEN Ok(JDict(put), k + 1)
                                        ELSE Fail

\* one JSON value whose first character is at i
ParseValue(s, i) ==
    IF i > Len(s) THEN Fail
    ELSE IF s[i] = "[" THEN
        LET j == SkipWs(s, i + 1)
        IN  IF j <= Len(s) /\ s[j] = "]" THEN Ok(JList(<<>>), j + 1) ELSE ParseItems(s, j, <<>>)
    ELSE IF s[i] = "{" THEN
        LET j == SkipWs(s, i + 1)
        IN  IF j <= Len(s) /\ s[j] = "}" THEN Ok(JDict(<<>>), j + 1) ELSE ParseMembers(s, j, <<>>)
    ELSE IF s[i] = "\"" THEN ParseString(s, i)
    ELSE IF IsDigit(s[i]) THEN ParseNumber(s, i)
    ELSE IF s[i] = "n" THEN ParseWord(s, i, <<"n","u","l","l">>, JNull)
    ELSE IF s[i] = "t" THEN ParseWord(s, i, <<"t","r","u","e">>, JBool(TRUE))
    ELSE IF s[i] = "f" THEN ParseWord(s, i, <<"f","a","l","s","e">>, JBool(FALSE))
    ELSE Fail

\* json.loads(s): one value, whitespace around it, nothing else
json_loads(s) ==
    LET r == ParseValue(s, SkipWs(s, 1))
    IN  IF r.ok /\ SkipWs(s, r.next) > Len(s) THEN r ELSE Fail

--------------------------------------------------------------------------
(* How a call ends, and the result dictionaries of app.py *)

Return(v) == [kind |-> "return", value |-> v]

\* an exception propagating out of a call; text is str(e)
Raise(text) == [kind |-> "raise", text |-> text]

ErrorResult(source, message) == [status |-> "error", source |-> source, message |-> message]

SuccessResult(data, crawled_url, original_len, summarized_len) ==
    [status |-> "success", data |-> data, crawled_url |-> crawled_url,
     original_markdown_length |-> original_len,
     summarized_markdown_length |-> summarized_len]

MsgTargetUrlEmpty == <<"T","a","r","g","e","t"," ","U","R","L"," ","c","a","n","n","o","t"," ","b","e"," ","e","m","p","t","y",".">>

MsgCrawlingFailed(url, text) == <<"C","r","a","w","l","i","n","g"," ","f","a","i","l","e","d"," ","f","o","r"," ">> \o url \o <<"."," ","E","r","r","o","r",":"," ">> \o text

MsgNoContent(url) ==
    <<"N","o"," ","c","o","n","t","e","n","t"," ","r","e","t","r","i","e","v","e","d"," ","f","r","o","m"," ","c","r","a","w","l","i","n","g"," ">> \o url
    \o <<"."," ","T","h","e"," ","U","R","L"," ","m","i","g","h","t"," ","b","e"," ","i","n","v","a","l","i","d",","," ","i","n","a","c","c","e","s","s","i","b","l","e",","," ","o","r"," ","h","a","v","e"," ","n","o"," ","s","c","r","a","p","a","b","l","e"," ","c","o","n","t","e","n","t",".">>

MsgNoMeaningfulMarkdown == <<"C","r","a","w","l","e","d"," ","p","a","g","e"," ","h","a","s"," ","n","o"," ","m","e","a","n","i","n","g","f","u","l"," ","m","a","r","k","d","o","w","n"," ","c","o","n","t","e","n","t"," ","t","o"," ","s","u","m","m","a","r","i","z","e",".">>

MsgNotConfigured == <<"S","u","m","m","a","r","i","z","e","r"," ","n","o","t"," ","c","o","n","f","i","g","u","r","e","d","."," ","P","l","e","a","s","e"," ","c","h","e","c","k"," ","G","E","M","I","N","I","_","K","E","Y"," ","i","n"," ","c","o","n","f","i","g","s",".","p","y",".">>

MsgGenerationFailed(text) == <<"S","u","m","m","a","r","y"," ","g","e","n","e","r","a","t","i","o","n"," ","f","a","i","l","e","d","."," ","E","r","r","o","r",":"," ">> \o text

MsgSummarizerOutput ==
    <<"F","a","i","l","e","d"," ","t","o"," ","g","e","n","e","r","a","t","e"," ","o","r"," ","p","a","r","s","e"," ","J","S","O","N"," ","s","u","m","m","a","r","y","."," ","C","h","e","c","k"," ","s","e","r","v","e","r"," ","l","o","g","s"," ","f","o","r"," ","m","o","r","e"," ","d","e","t","a","i","l","s"," ","f","r","o","m"," ","t","h","e"," ","S","u","m","m","a","r","i","z","e","r",".">>

MsgUrlMustBeProvided == <<"U","R","L"," ","m","u","s","t"," ","b","e"," ","p","r","o","v","i","d","e","d",".">>

MsgInvalidUrlFormat == <<"I","n","v","a","l","i","d"," ","U","R","L"," ","f","o","r","m","a","t","."," ","M","u","s","t"," ","s","t","a","r","t"," ","w","i","t","h"," ","h","t","t","p",":","/","/"," ","o","r"," ","h","t","t","p","s",":","/","/">>

MsgUnknownError == <<"U","n","k","n","o","w","n"," ","e","r","r","o","r">>

NoContentMarker == <<"N","o"," ","c","o","n","t","e","n","t">>

--------------------------------------------------------------------------
(* crawler.py *)

\* a CrawlResult of the crawl engine; markdown is None or a MarkdownGenerationResult
CrawlResult(url, markdown) == [url |-> url, markdown |-> markdown]

Markdown(raw) == [t |-> "markdown", raw_markdown |-> raw]

\* the guard of WebCrawler.crawl: a blank start_url returns [] without the engine
start_url_is_blank(start_url) == IsBlank(start_url)

\* WebCrawler.crawl after the engine ended: how crawl itself ends
crawl_returns_reraising(arun) == arun

crawl_returns(arun) == IF arun.kind = "raise" THEN Return(<<>>) ELSE Return(arun.value)

--------------------------------------------------------------------------
(* summarizer.py *)

ModelName == "gemini-2.0-flash-001"

\* truthiness of GEMINI_API_KEY
KeyPresent(key) == ~IsNone(key) /\ key.s # <<>>

\* ContentSummarizer.__init__: the object it leaves
ContentSummarizer_always_configured(key, ok) ==
    [t |-> "ContentSummarizer", model |-> ModelName, api_key_configured |-> TRUE]

ContentSummarizer(key, ok) ==
    IF KeyPresent(key) /\ ok
    THEN [t |-> "ContentSummarizer", model |-> ModelName, api_key_configured |-> TRUE]
    ELSE [t |-> "ContentSummarizer", model |-> "None", api_key_configured |-> FALSE]

\* generate_json_summary up to the model call: an early return value, or "await"
summary_before_model(self, markdown_content) ==
    IF ~self.api_key_configured \/ self.model = "None" THEN Return(None)
    ELSE IF IsBlank(markdown_content) THEN Return(JList(<<>>))
    ELSE [kind |-> "await"]

\* the text handed to json.loads: response.text stripped of its code fence
strip_fence_keeping_tail(text) ==
    LET t == strip(text)
    IN  IF startswith(t, <<BT,BT,BT,"j","s","o","n">>) THEN strip(SliceFrom(t, 7))
        ELSE IF startswith(t, <<BT,BT,BT>>) THEN strip(SliceFrom(t, 3))
        ELSE t

strip_fence(text) ==
    LET t == strip(text)
    IN  IF startswith(t, <<BT,BT,BT,"j","s","o","n">>) THEN strip(SliceBetween(t, 7, 3))
        ELSE IF startswith(t, <<BT,BT,BT>>) THEN strip(SliceBetween(t, 3, 3))
        ELSE t

\* generate_json_summary from the model call on: reply is what the call did,
\* [kind "text"] a response with text, [kind "raise"] an exception of the call
\* or of response.text (a blocked prompt, no candidates)
\* (the variant that lets an exception of the model call propagate)
summary_after_model_propagating(reply) ==
    IF reply.kind = "text"
    THEN LET parsed == json_loads(strip_fence(reply.text))
         IN  IF parsed.ok THEN Return(parsed.val) ELSE Return(None)
    ELSE Raise(reply.text)

summary_after_model(reply) ==
    IF reply.kind = "text"
    THEN LET parsed == json_loads(strip_fence(reply.text))
         IN  IF parsed.ok THEN Return(parsed.val) ELSE Return(None)
    ELSE Return(None)

--------------------------------------------------------------------------
(* app.py: process_url_and_summarize *)

max_chars_for_api_call == 32000

\* the guard of the orchestrator on its argument
target_url_is_blank_never(url) == FALSE

target_url_is_blank(url) == IsBlank(url)

\* "not crawl_results"
no_crawl_results_unchecked(crawl_results) == FALSE

no_crawl_results(crawl_results) == crawl_results = <<>>

\* the page has markdown.raw_markdown that is not empty and not only whitespace
has_meaningful_markdown_unstripped(page) ==
    /\ ~IsNone(page.markdown)
    /\ page.markdown.raw_markdown # <<>>

has_meaningful_markdown(page) ==
    /\ ~IsNone(page.markdown)
    /\ page.markdown.raw_markdown # <<>>
    /\ strip(page.markdown.raw_markdown) # <<>>

\* markdown_text_for_summary
truncate_suffix(text) ==
    IF Len(text) > max_chars_for_api_call
    THEN SliceFrom(text, Len(text) - max_chars_for_api_call)
    ELSE text

truncate(text) ==
    IF Len(text) > max_chars_for_api_call
    THEN SlicePrefix(text, max_chars_for_api_call)
    ELSE text

\* "json_summary is not None"
summary_present_if_truthy(json_summary) ==
    /\ ~IsNone(json_summary)
    /\ ~(json_summary.t = "list" /\ json_summary.items = <<>>)
    /\ ~(json_summary.t = "dict" /\ json_summary.members = <<>>)
    /\ ~(json_summary.t = "int" /\ json_summary.n = 0)
    /\ ~(json_summary.t = "str" /\ json_summary.s = <<>>)
    /\ ~(json_summary.t = "bool" /\ ~json_summary.b)

summary_present(json_summary) == ~IsNone(json_summary)

\* the end of the orchestrator, from how generate_json_summary ended
process_summary(gen, text, text_for_summary, url) ==
    IF gen.kind = "raise"
    THEN Return(ErrorResult("summarizer_generation", MsgGenerationFailed(gen.text)))
    ELSE IF summary_present(gen.value)
    THEN Return(SuccessResult(gen.value, url, Len(text), Len(text_for_summary)))
    ELSE Return(ErrorResult("summarizer_output", MsgSummarizerOutput))

\* The orchestrator from the end of crawler.crawl up to the model call or its
\* own end.  crawled is how crawl ended.  The record gives the locals it has
\* set, the calls it has made, and either step "end" with how it ends or step
\* "generate": suspended in generate_content_async.
NoLocals ==
    [markdown_text |-> <<>>, page_url |-> <<>>, summarizer |-> None,
     markdown_text_for_summary |-> <<>>, summarizer_inits |-> 0,
     summary_calls |-> 0, model_calls |-> 0, generated |-> None]

EndWith(locals, out) == [locals EXCEPT !.step = "end", !.outcome = out]

process_after_crawl(url, crawled, key, ok) ==
    LET none == [step |-> "end", outcome |-> None] @@ NoLocals
    IN
    IF crawled.kind = "raise"
    THEN EndWith(none, Return(ErrorResult("crawler", MsgCrawlingFailed(url, crawled.text))))
    ELSE IF no_crawl_results(crawled.value)
    THEN EndWith(none, Return(ErrorResult("crawler", MsgNoContent(url))))
    ELSE IF crawled.value = <<>>
    THEN EndWith(none, Raise(<<"l","i","s","t"," ","i","n","d","e","x"," ","o","u","t"," ","o","f"," ","r","a","n","g","e">>))
    ELSE
    LET page == crawled.value[1]
    IN
    IF ~has_meaningful_markdown(page)
    THEN EndWith(none, Return(ErrorResult("crawler", MsgNoMeaningfulMarkdown)))
    ELSE
    LET text == page.markdown.raw_markdown
        obj  == ContentSummarizer(key, ok)
        made == [none EXCEPT !.markdown_text = text, !.page_url = page.url,
                             !.summarizer = obj, !.summarizer_inits = 1]
    IN
    IF ~obj.api_key_configured
    THEN EndWith(made, Return(ErrorResult("summarizer_config", MsgNotConfigured)))
    ELSE
    LET cut    == truncate(text)
        called == [made EXCEPT !.markdown_text_for_summary = cut, !.summary_calls = 1]
        early  == summary_before_model(obj, cut)
    IN
    IF early.kind = "await"
    THEN [called EXCEPT !.step = "generate", !.model_calls = 1]
    ELSE EndWith([called EXCEPT !.generated = early],
                 process_summary(early, text, cut, page.url))

--------------------------------------------------------------------------
(* app.py: api_summarize_url *)

\* the request is refused before the orchestrator: the detail of the 400, or None
url_refusal_scheme_only(url) ==
    IF url = <<>> THEN Str(MsgUrlMustBeProvided)
    ELSE IF ~startswith(url, <<"h","t","t","p">>) THEN Str(MsgInvalidUrlFormat)
    ELSE None

url_refusal(url) ==
    IF url = <<>> THEN Str(MsgUrlMustBeProvided)
    ELSE IF ~(startswith(url, <<"h","t","t","p",":","/","/">>) \/ startswith(url, <<"h","t","t","p","s",":","/","/">>))
    THEN Str(MsgInvalidUrlFormat)
    ELSE None

\* the status code of a result whose status is not "success"
status_code_config_as_500(result) ==
    IF \/ ("source" \in DOMAIN result /\ result.source = "input_validation")
       \/ /\ "source" \in DOMAIN result /\ result.source = "crawler"
          /\ Contains(NoContentMarker,
                      IF "message" \in DOMAIN result THEN result.message ELSE <<>>)
    THEN 400
    ELSE 500

status_code(result) ==
    IF \/ ("source" \in DOMAIN result /\ result.source = "input_validation")
       \/ /\ "source" \in DOMAIN result /\ result.source = "crawler"
          /\ Contains(NoContentMarker,
                      IF "message" \in DOMAIN result THEN result.message ELSE <<>>)
    THEN 400
    ELSE IF "source" \in DOMAIN result /\ result.source = "summarizer_config"
    THEN 503
    ELSE 500

error_detail_dict(result) ==
    [message |-> IF "message" \in DOMAIN result THEN result.message ELSE MsgUnknownError,
     source  |-> IF "source" \in DOMAIN result THEN result.source ELSE "unknown_backend_source"]

\* the response of the endpoint once the orchestrator has ended with out; an
\* exception out of the handler is the framework's plain 500 response
api_response(out) ==
    IF out.kind = "raise"
    THEN [status |-> 500, kind |-> "unhandled"]
    ELSE IF out.value.status = "success"
    THEN [status |-> 200, kind |-> "result", body |-> out.value]
    ELSE [status |-> status_code(out.value), kind |-> "detail",
          detail |-> error_detail_dict(out.value)]

NoResponse == [status |-> 0, kind |-> "none"]

--------------------------------------------------------------------------
(* The inputs: what callers, the crawl engine, the deployment and the      *)
(* hosted model can supply                                                 *)

Urls == {<<>>, <<" ">>, <<"h","t","t","p",":","/","/","a">>, <<"h","t","t","p","s",":","/","/","a">>, <<"h","t","t","p",":","/","a">>, <<"h","t","t","p","x">>, <<"f","t","p",":","/","/","a">>}

\* the URL a crawl result carries when the engine followed a redirect
RedirectUrl == <<"h","t","t","p","s",":","/","/","b">>

ShortTexts == UNION {[1..k -> {" ", "x"}] : k \in 0..MaxTextLen}

\* a page text of n characters whose first character occurs nowhere else
LongText(n) ==
    SubSeq([i \in 1..n |-> IF i = 1 THEN "#" ELSE IF i % 2 = 0 THEN "a" ELSE " "], 1, n)

LongTexts == {LongText(n) : n \in (max_chars_for_api_call - 1)..(max_chars_for_api_call + MaxOver)}

Texts == ShortTexts \cup LongTexts

Markdowns == {None} \cup {Markdown(t) : t \in Texts}

\* the lists arun can return for start_url
EngineLists(start_url) ==
    {<<>>}
    \cup {<<CrawlResult(start_url, m)>> : m \in Markdowns}
    \cup {<<CrawlResult(RedirectUrl, Markdown(<<"x">>))>>,
          <<CrawlResult(start_url, Markdown(<<"x"," ","x">>)), CrawlResult(RedirectUrl, None)>>}

EngineErrors == {<<"n","e","t",":",":","E","R","R","_","N","A","M","E","_","N","O","T","_","R","E","S","O","L","V","E","D">>}

\* configs.py as the import finds it: missing, or GEMINI_KEY as set there
Configs == {[t |-> "missing"], Str(<<>>), Str(<<"k">>)}

\* summarizer.py at import: GEMINI_API_KEY
load_key(configs) ==
    IF configs.t = "missing" THEN None
    ELSE IF configs.s = <<>> THEN None
    ELSE configs

\* JSON documents with the value each denotes
BaseDocs ==
    {[text |-> <<"[","]">>, val |-> JList(<<>>)],
     [text |-> <<"{","}">>, val |-> JDict(<<>>)],
     [text |-> <<"n","u","l","l">>, val |-> JNull],
     [text |-> <<"[","1",","," ","2","0","]">>, val |-> JList(<<JInt(1), JInt(20)>>)],
     [text |-> <<"{","\"","m","\"",":","\"","a","\"",","," ","\"","m","\"",":","\"","b","\"","}">>, val |-> JDict(<<[k |-> <<"m">>, v |-> JStr(<<"b">>)]>>)]}

Nest(d) ==
    {[text |-> <<"["," ">> \o d.text \o <<"]">>, val |-> JList(<<d.val>>)],
     [text |-> <<"{","\"","m","o","d","u","l","e","\"",":"," ">> \o d.text \o <<"\n","}">>,
      val |-> JDict(<<[k |-> <<"m","o","d","u","l","e">>, v |-> d.val]>>)]}

RECURSIVE Docs(_)
Docs(n) == IF n = 0 THEN BaseDocs ELSE Docs(n - 1) \cup UNION {Nest(d) : d \in Docs(n - 1)}

FenceForms == {"bare", "json", "plain", "tight"}

\* a document as the model may wrap it
Fenced(form, text) ==
    CASE form = "bare"  -> text
      [] form = "json"  -> <<BT,BT,BT,"j","s","o","n","\n">> \o text \o <<"\n",BT,BT,BT>>
      [] form = "plain" -> <<" ",BT,BT,BT,"\n">> \o text \o <<"\n",BT,BT,BT,"\n">>
      [] form = "tight" -> <<BT,BT,BT,"j","s","o","n">> \o text \o <<BT,BT,BT>>

ValidReplies == {Fenced(f, d.text) : f \in FenceForms, d \in Docs(MaxNest)}

\* replies that are no JSON document once the fence is cut
InvalidReplies ==
    {<<>>, <<"S","o","r","r","y">>, <<"[">>, <<"[","1",",","]">>, <<"[","]"," ","x">>, <<"{","\"","m","\""," ","1","}">>, <<"n","u","l">>,
     <<BT,BT,BT,"j","s","o","n","\n","[","]">>, <<"[","]","\n",BT,BT,BT>>, <<BT,BT,BT,"J","S","O","N","\n","[","]","\n",BT,BT,BT>>, <<BT,BT,BT," ","j","s","o","n","\n","[","]","\n",BT,BT,BT>>,
     <<BT,BT,BT>>, <<BT,BT,BT,"j","s","o","n",BT,BT,BT>>, <<BT,BT,BT,"j","s","o","n","\n","[","1","\n",BT,BT,BT>>}

ModelTexts == ValidReplies \cup InvalidReplies

\* why the model call can fail
ModelErrors == {"network", "quota", "blocked"}

ModelErrorText(reason) ==
    CASE reason = "network" -> <<"5","0","3"," ","u","n","a","v","a","i","l","a","b","l","e">>
      [] reason = "quota"   -> <<"4","2","9"," ","q","u","o","t","a"," ","e","x","c","e","e","d","e","d">>
      [] reason = "blocked" -> <<"r","e","s","p","o","n","s","e",".","t","e","x","t",":"," ","n","o"," ","c","a","n","d","i","d","a","t","e","s">>

--------------------------------------------------------------------------
(* The state machine *)

Init ==
    /\ pc = "idle"
    /\ caller = "none"
    /\ \E configs \in Configs : GEMINI_API_KEY = load_key(configs)
    /\ genai_ok \in BOOLEAN
    /\ request_url = <<>>
    /\ target_url = <<>>
    /\ engine = None
    /\ markdown_text = <<>>
    /\ page_url = <<>>
    /\ summarizer = None
    /\ markdown_text_for_summary = <<>>
    /\ model_reply = None
    /\ generated = None
    /\ outcome = None
    /\ http = NoResponse
    /\ process_calls = 0
    /\ crawl_calls = 0
    /\ arun_calls = 0
    /\ summarizer_inits = 0
    /\ summary_calls = 0
    /\ model_calls = 0

\* the response the caller c gets when the orchestrator ends with out
Answer(c, out) == IF c = "api" THEN api_response(out) ELSE NoResponse

\* the orchestrator has run up to rec (a record of process_after_crawl)
Proceed(c, rec) ==
    /\ markdown_text' = rec.markdown_text
    /\ page_url' = rec.page_url
    /\ summarizer' = rec.summarizer
    /\ markdown_text_for_summary' = rec.markdown_text_for_summary
    /\ summarizer_inits' = summarizer_inits + rec.summarizer_inits
    /\ summary_calls' = summary_calls + rec.summary_calls
    /\ model_calls' = model_calls + rec.model_calls
    /\ generated' = rec.generated
    /\ outcome' = rec.outcome
    /\ IF rec.step = "end"
       THEN pc' = "done" /\ http' = Answer(c, rec.outcome)
       ELSE pc' = rec.step /\ http' = NoResponse

\* process_url_and_summarize(url) from its start to its first suspension or its end
ProcessStart(c, url) ==
    /\ process_calls' = process_calls + 1
    /\ target_url' = url
    /\ model_reply' = None
    /\ IF target_url_is_blank(url)
       THEN /\ UNCHANGED <<crawl_calls, arun_calls, engine>>
            /\ Proceed(c, EndWith([step |-> "end", outcome |-> None] @@ NoLocals,
                                  Return(ErrorResult("input_validation", MsgTargetUrlEmpty))))
       ELSE /\ crawl_calls' = crawl_calls + 1
            /\ IF start_url_is_blank(url)
               THEN /\ UNCHANGED <<arun_calls, engine>>
                    /\ Proceed(c, process_after_crawl(url, Return(<<>>), GEMINI_API_KEY, genai_ok))
               ELSE /\ arun_calls' = arun_calls + 1
                    /\ UNCHANGED engine
                    /\ Proceed(c, [step |-> "arun", outcome |-> None] @@ NoLocals)

\* POST /summarize/ with a url the endpoint refuses
ApiRefuse(url) ==
    /\ pc = "idle"
    /\ ~IsNone(url_refusal(url))
    /\ pc' = "done"
    /\ caller' = "api"
    /\ request_url' = url
    /\ http' = [status |-> 400, kind |-> "text", detail |-> url_refusal(url)]
    /\ UNCHANGED <<GEMINI_API_KEY, genai_ok, target_url, engine, markdown_text, page_url,
                   summarizer, markdown_text_for_summary, model_reply, generated, outcome,
                   process_calls, crawl_calls, arun_calls, summarizer_inits,
                   summary_calls, model_calls>>

\* POST /summarize/ with a url the endpoint passes to the orchestrator
ApiAccept(url) ==
    /\ pc = "idle"
    /\ IsNone(url_refusal(url))
    /\ caller' = "api"
    /\ request_url' = url
    /\ ProcessStart("api", url)
    /\ UNCHANGED <<GEMINI_API_KEY, genai_ok>>

\* process_url_and_summarize called as a function, with any string
DirectCall(url) ==
    /\ pc = "idle"
    /\ caller' = "direct"
    /\ ProcessStart("direct", url)
    /\ UNCHANGED <<GEMINI_API_KEY, genai_ok, request_url>>

\* the crawl engine ended (arun is how); crawl returns and the orchestrator goes on
ArunEnds(arun) ==
    /\ engine' = arun
    /\ Proceed(caller, process_after_crawl(target_url, crawl_returns(arun),
                                           GEMINI_API_KEY, genai_ok))
    /\ UNCHANGED <<caller, GEMINI_API_KEY, genai_ok, request_url, target_url, model_reply,
                   process_calls, crawl_calls, arun_calls>>

\* arun returns its list of results
ArunReturns(results) ==
    /\ pc = "arun"
    /\ ArunEnds(Return(results))

\* arun raises; crawl catches the exception
ArunRaises(text) ==
    /\ pc = "arun"
    /\ ArunEnds(Raise(text))

\* the model call ended (reply is how); generate_json_summary and the orchestrator end
ModelEnds(reply) ==
    /\ model_reply' = reply
    /\ generated' = summary_after_model(reply)
    /\ outcome' = process_summary(generated', markdown_text, markdown_text_for_summary, page_url)
    /\ http' = Answer(caller, outcome')
    /\ pc' = "done"
    /\ UNCHANGED <<caller, GEMINI_API_KEY, genai_ok, request_url, target_url, engine,
                   markdown_text, page_url, summarizer, markdown_text_for_summary,
                   process_calls, crawl_calls, arun_calls, summarizer_inits,
                   summary_calls, model_calls>>

\* the model answers with a response whose text is text
ModelReplies(text) ==
    /\ pc = "generate"
    /\ ModelEnds([kind |-> "text", text |-> text])

\* the model call, or reading response.text, raises
ModelFails(reason) ==
    /\ pc = "generate"
    /\ ModelEnds([kind |-> "raise", reason |-> reason, text |-> ModelErrorText(reason)])

\* the response is delivered; the next request finds a fresh handler
NextRequest ==
    /\ pc = "done"
    /\ pc' = "idle"
    /\ caller' = "none"
    /\ request_url' = <<>>
    /\ target_url' = <<>>
    /\ engine' = None
    /\ markdown_text' = <<>>
    /\ page_url' = <<>>
    /\ summarizer' = None
    /\ markdown_text_for_summary' = <<>>
    /\ model_reply' = None
    /\ generated' = None
    /\ outcome' = None
    /\ http' = NoResponse
    /\ process_calls' = 0
    /\ crawl_calls' = 0
    /\ arun_calls' = 0
    /\ summarizer_inits' = 0
    /\ summary_calls' = 0
    /\ model_calls' = 0
    /\ UNCHANGED <<GEMINI_API_KEY, genai_ok>>

Next ==
    \/ \E url \in Urls : ApiRefuse(url)
    \/ \E url \in Urls : ApiAccept(url)
    \/ \E url \in Urls : DirectCall(url)
    \/ \E results \in EngineLists(target_url) : ArunReturns(results)
    \/ \E text \in EngineErrors : ArunRaises(text)
    \/ \E text \in ModelTexts : ModelReplies(text)
    \/ \E reason \in ModelErrors : ModelFails(reason)
    \/ NextRequest

Spec == Init /\ [][Next]_vars

--------------------------------------------------------------------------
(* Vocabulary of the properties *)

\* the call of process_url_and_summarize of this request has ended
ProcessEnded == pc = "done" /\ process_calls = 1

Succeeded == outcome.kind = "return" /\ outcome.value.status = "success"

FailedAs(source) ==
    /\ outcome.kind = "return"
    /\ outcome.value.status = "error"
    /\ outcome.value.source = source

FailureSources ==
    {"input_validation", "crawler", "summarizer_config", "summarizer_generation",
     "summarizer_output"}

\* the text has a character that is not whitespace
NonBlank(text) == \E i \in 1..Len(text) : text[i] \notin {" ", "\n", "\t", "\r"}

\* the crawl engine returned a list whose first result carries non-blank text
CrawledUsableText ==
    /\ engine.kind = "return"
    /\ engine.value # <<>>
    /\ engine.value[1].markdown.t = "markdown"
    /\ NonBlank(engine.value[1].markdown.raw_markdown)

\* the crawl engine returned no result, or a first result without non-blank text
CrawledNothingUsable ==
    /\ engine.kind = "return"
    /\ \/ engine.value = <<>>
       \/ engine.value[1].markdown.t = "None"
       \/ /\ engine.value[1].markdown.t = "markdown"
          /\ ~NonBlank(engine.value[1].markdown.raw_markdown)

\* no valid model credential: no key, or the model client refuses to initialise
Unconfigured == GEMINI_API_KEY.t = "None" \/ ~genai_ok

--------------------------------------------------------------------------
(* C1. Every outcome of process_url_and_summarize is answered by the       *)
(* endpoint as follows: a success with 200 and the outcome as body; a      *)
(* failure of source input_validation, or of source crawler with "No       *)
(* content" in its message, with 400; a failure of source                  *)
(* summarizer_config with 503; any other failure with 500; and the detail  *)
(* of every failure response is exactly the outcome's message and source.  *)
C1_StatusMapping ==
    (ProcessEnded /\ caller = "api" /\ outcome.kind = "return") =>
        LET r == outcome.value
        IN  IF r.status = "success"
            THEN http.status = 200 /\ http.kind = "result" /\ http.body = r
            ELSE /\ http.kind = "detail"
                 /\ http.detail = [message |-> r.message, source |-> r.source]
                 /\ r.source = "input_validation" => http.status = 400
                 /\ (r.source = "crawler" /\ Contains(<<"N","o"," ","c","o","n","t","e","n","t">>, r.message))
                        => http.status = 400
                 /\ r.source = "summarizer_config" => http.status = 503
                 /\ (/\ r.source # "input_validation"
                     /\ ~(r.source = "crawler" /\ Contains(<<"N","o"," ","c","o","n","t","e","n","t">>, r.message))
                     /\ r.source # "summarizer_config") => http.status = 500

\* a configuration failure has been answered with 503 and its message and source
C1_Witness ==
    /\ ProcessEnded /\ caller = "api"
    /\ FailedAs("summarizer_config")
    /\ http.status = 503
    /\ http.detail = [message |-> MsgNotConfigured, source |-> "summarizer_config"]

(* C2. A request whose url is empty or starts with neither "http://" nor   *)
(* "https://" is answered with 400, and process_url_and_summarize is never *)
(* invoked for it: no crawl and no model call happen.                      *)
C2_RefusedBeforeOrchestrator ==
    (/\ caller = "api"
     /\ \/ request_url = <<>>
        \/ /\ ~(Len(request_url) >= 7 /\ SubSeq(request_url, 1, 7) = <<"h","t","t","p",":","/","/">>)
           /\ ~(Len(request_url) >= 8 /\ SubSeq(request_url, 1, 8) = <<"h","t","t","p","s",":","/","/">>))
    => /\ pc = "done"
       /\ http.status = 400
       /\ process_calls = 0 /\ crawl_calls = 0 /\ arun_calls = 0
       /\ summarizer_inits = 0 /\ summary_calls = 0 /\ model_calls = 0

\* a url with one slash after the scheme has been refused without any call
C2_Witness ==
    /\ pc = "done" /\ caller = "api"
    /\ request_url = <<"h","t","t","p",":","/","a">>
    /\ http.status = 400
    /\ process_calls = 0

(* C3 as stated. With the Summarizer unconfigured, every call with a       *)
(* non-blank target URL ends as Failure(summarizer_config), answered with  *)
(* 503, whatever the crawl gave (no result, blank text or usable text).    *)
C3_Original ==
    (ProcessEnded /\ Unconfigured /\ NonBlank(target_url)) =>
        /\ FailedAs("summarizer_config")
        /\ caller = "api" => http.status = 503

(* C3 as amended. With the Summarizer unconfigured and a non-blank target  *)
(* URL: when the crawl gave a first result with non-blank text the call    *)
(* ends as Failure(summarizer_config), answered with 503, without a model  *)
(* call; when the crawl gave no result or a first result without non-blank *)
(* text the call ends as Failure(crawler) and no Summarizer is built.      *)
C3_ConfigFailureAfterUsableCrawl ==
    (ProcessEnded /\ Unconfigured /\ NonBlank(target_url)) =>
        /\ CrawledUsableText =>
              /\ FailedAs("summarizer_config")
              /\ caller = "api" => http.status = 503
              /\ model_calls = 0
        /\ CrawledNothingUsable =>
              /\ FailedAs("crawler")
              /\ summarizer_inits = 0

\* usable text was crawled without a credential and the answer is 503
C3_Witness ==
    /\ ProcessEnded /\ caller = "api"
    /\ GEMINI_API_KEY.t = "None"
    /\ CrawledUsableText
    /\ FailedAs("summarizer_config")
    /\ http.status = 503

(* C4. When the model call fails for another reason than a JSON parse      *)
(* failure (network, quota, content-policy block), generate_json_summary   *)
(* propagates the error and the orchestrator reports                       *)
(* Failure(summarizer_generation), not Failure(summarizer_output).         *)
C4_Original ==
    (ProcessEnded /\ model_reply.kind = "raise") =>
        /\ generated.kind = "raise"
        /\ FailedAs("summarizer_generation")

(* What the code does with a failing model call: generate_json_summary     *)
(* catches the error and returns null, and the orchestrator reports        *)
(* Failure(summarizer_output), as for an unparseable response; the         *)
(* endpoint answers with 500.                                              *)
C4_ModelFailureIsSummarizerOutput ==
    (ProcessEnded /\ model_reply.kind = "raise") =>
        /\ generated = Return(None)
        /\ FailedAs("summarizer_output")
        /\ caller = "api" => http.status = 500

\* a quota failure of the model call has ended as Failure(summarizer_output)
C4_Witness ==
    /\ ProcessEnded
    /\ model_reply.kind = "raise" /\ model_reply.reason = "quota"
    /\ FailedAs("summarizer_output")

(* C5. For a crawled text of length L, the text passed to                  *)
(* generate_json_summary is the first min(L, 32000) characters of it, and  *)
(* a success reports original_markdown_length = L and                      *)
(* summarized_markdown_length = min(L, 32000).                             *)
C5_TruncationPrefix ==
    (process_calls = 1 /\ summary_calls = 1) =>
        LET crawled == engine.value[1].markdown.raw_markdown
            L       == Len(crawled)
            kept    == IF L <= 32000 THEN L ELSE 32000
        IN  /\ Len(markdown_text_for_summary) = kept
            /\ \A i \in 1..kept : markdown_text_for_summary[i] = crawled[i]
            /\ (pc = "done" /\ Succeeded) =>
                  /\ outcome.value.original_markdown_length = L
                  /\ outcome.value.summarized_markdown_length = kept

\* a text of 32001 characters has been summarized from its first 32000
C5_Witness ==
    /\ ProcessEnded /\ Succeeded
    /\ Len(engine.value[1].markdown.raw_markdown) = 32001
    /\ outcome.value.original_markdown_length = 32001
    /\ outcome.value.summarized_markdown_length = 32000
    /\ markdown_text_for_summary[1] = "#"

(* C6. When the crawl for a non-blank URL yields no result, because the    *)
(* engine returned an empty list or because it raised (crawl catches the   *)
(* exception and returns an empty list), the call ends as Failure(crawler) *)
(* with "No content" in its message and the endpoint answers with 400.     *)
C6_EmptyCrawlIsNoContent ==
    (/\ ProcessEnded /\ arun_calls = 1
     /\ (engine.kind = "raise" \/ (engine.kind = "return" /\ engine.value = <<>>)))
    => /\ FailedAs("crawler")
       /\ Contains(<<"N","o"," ","c","o","n","t","e","n","t">>, outcome.value.message)
       /\ caller = "api" => http.status = 400

\* the engine raised and the request has been answered with 400
C6_Witness ==
    /\ ProcessEnded /\ caller = "api"
    /\ engine.kind = "raise"
    /\ FailedAs("crawler")
    /\ http.status = 400

(* C7. A reply of the model that is no valid JSON once the fence is cut    *)
(* makes generate_json_summary return null without raising, and the call   *)
(* ends as Failure(summarizer_output), answered with 500; a reply that is  *)
(* a valid empty JSON array is a Success with data = [], answered with 200. *)
C7_NullVersusEmptyArray ==
    (ProcessEnded /\ model_reply.kind = "text") =>
        /\ model_reply.text \in InvalidReplies =>
              /\ generated = Return(None)
              /\ FailedAs("summarizer_output")
              /\ caller = "api" => http.status = 500
        /\ model_reply.text \in {Fenced(f, <<"[","]">>) : f \in FenceForms} =>
              /\ Succeeded
              /\ outcome.value.data = JList(<<>>)
              /\ caller = "api" => http.status = 200

\* an empty array has been answered as a success with no module
C7_Witness ==
    /\ ProcessEnded /\ caller = "api"
    /\ model_reply.kind = "text" /\ model_reply.text = <<"[","]">>
    /\ Succeeded /\ outcome.value.data = JList(<<>>)
    /\ http.status = 200

(* C8. generate_json_summary cuts a leading triple-backtick fence, with or *)
(* without the json tag, and the trailing fence, and parses the rest: a    *)
(* reply that is a JSON document J inside such fences parses to J, and a   *)
(* reply that is J without a fence parses to J.                            *)
C8_FenceStripping ==
    (ProcessEnded /\ model_reply.kind = "text") =>
        \A d \in Docs(MaxNest) : \A f \in FenceForms :
            model_reply.text = Fenced(f, d.text) => generated = Return(d.val)

\* the fenced empty array of the spec has parsed to the empty list
C8_Witness ==
    /\ ProcessEnded
    /\ model_reply.kind = "text" /\ model_reply.text = <<BT,BT,BT,"j","s","o","n","\n","[","]","\n",BT,BT,BT>>
    /\ generated = Return(JList(<<>>))

(* C9. Whatever the target URL, the crawl engine and the model do, the     *)
(* call returns and never raises: a Success, or a failure whose source is  *)
(* one of the five sources and whose message is not empty; the endpoint    *)
(* never sees an unclassified error.                                       *)
C9_AlwaysTaggedResult ==
    ProcessEnded =>
        /\ outcome.kind = "return"
        /\ \/ outcome.value.status = "success"
           \/ /\ outcome.value.status = "error"
              /\ outcome.value.source \in FailureSources
              /\ Len(outcome.value.message) > 0
        /\ caller = "api" => http.kind \in {"result", "detail"}

\* both the engine's list and the model's failure have ended in tagged results
C9_Witness ==
    /\ ProcessEnded /\ caller = "api"
    /\ model_reply.kind = "raise"
    /\ outcome.kind = "return" /\ outcome.value.status = "error"
    /\ http.kind = "detail"

(* C10. In one call the stages run in order, each at most once, without    *)
(* retry: crawl is invoked at most once and never for a blank URL, which   *)
(* ends as Failure(input_validation); the model is called at most once,    *)
(* and only after the crawl gave non-blank text with the Summarizer        *)
(* configured; once a stage has failed no later stage is invoked and no    *)
(* summary, not even a partial one, is returned.                           *)
C10_StagesInOrderOnce ==
    /\ process_calls <= 1 /\ crawl_calls <= 1 /\ arun_calls <= 1
    /\ summarizer_inits <= 1 /\ summary_calls <= 1 /\ model_calls <= 1
    /\ (process_calls = 1 /\ ~NonBlank(target_url)) =>
          /\ crawl_calls = 0 /\ arun_calls = 0
          /\ pc = "done" /\ FailedAs("input_validation")
    /\ arun_calls = 1 => crawl_calls = 1
    /\ summarizer_inits = 1 => (crawl_calls = 1 /\ CrawledUsableText)
    /\ model_calls = 1 =>
          /\ CrawledUsableText
          /\ summarizer_inits = 1 /\ summary_calls = 1
          /\ GEMINI_API_KEY.t = "str" /\ genai_ok
    /\ pc = "arun" => (summarizer_inits = 0 /\ model_calls = 0)
    /\ (ProcessEnded /\ FailedAs("input_validation")) =>
          (crawl_calls = 0 /\ summarizer_inits = 0 /\ model_calls = 0)
    /\ (ProcessEnded /\ FailedAs("crawler")) =>
          (summarizer_inits = 0 /\ summary_calls = 0 /\ model_calls = 0)
    /\ (ProcessEnded /\ FailedAs("summarizer_config")) =>
          (summary_calls = 0 /\ model_calls = 0)
    /\ (ProcessEnded /\ ~Succeeded) =>
          (outcome.kind = "return" => "data" \notin DOMAIN outcome.value)

\* a whitespace URL has been refused by the orchestrator before any crawl
C10_Witness ==
    /\ ProcessEnded /\ caller = "direct"
    /\ target_url = <<" ">>
    /\ FailedAs("input_validation")
    /\ crawl_calls = 0 /\ arun_calls = 0 /\ model_calls = 0

(* C11. When the first crawl result is present but carries no extracted    *)
(* text, or only whitespace, the call ends as Failure(crawler) with the    *)
(* "no meaningful markdown content" message and no Summarizer is built or  *)
(* invoked; the message does not contain "No content", so the endpoint     *)
(* answers with 500, not with the 400 of an empty result list.             *)
C11_BlankPageIs500 ==
    (/\ ProcessEnded
     /\ engine.kind = "return" /\ engine.value # <<>>
     /\ \/ engine.value[1].markdown.t = "None"
        \/ /\ engine.value[1].markdown.t = "markdown"
           /\ ~NonBlank(engine.value[1].markdown.raw_markdown))
    => /\ FailedAs("crawler")
       /\ outcome.value.message
             = <<"C","r","a","w","l","e","d"," ","p","a","g","e"," ","h","a","s"," ","n","o"," ","m","e","a","n","i","n","g","f","u","l"," ","m","a","r","k","d","o","w","n"," ","c","o","n","t","e","n","t"," ","t","o"," ","s","u","m","m","a","r","i","z","e",".">>
       /\ ~Contains(<<"N","o"," ","c","o","n","t","e","n","t">>, outcome.value.message)
       /\ summarizer_inits = 0 /\ summary_calls = 0 /\ model_calls = 0
       /\ summarizer.t = "None"
       /\ caller = "api" => http.status = 500

\* a page of one space has been answered with 500 and no Summarizer was built
C11_Witness ==
    /\ ProcessEnded /\ caller = "api"
    /\ engine.kind = "return" /\ engine.value # <<>>
    /\ engine.value[1].markdown.t = "markdown"
    /\ engine.value[1].markdown.raw_markdown = <<" ">>
    /\ FailedAs("crawler")
    /\ summarizer_inits = 0
    /\ http.status = 500

==========================================================================
